---- MODULE Spec2Model ----
(***************************************************************************)
(* Model of src/main.py: the text windower chunk_text, the best-answer     *)
(* aggregation loop of ask_question, and the process-wide session store    *)
(* mutated by upload_pdf and ask_question.                                 *)
(*                                                                         *)
(* Texts are sequences of one-character strings.  Scores are counted in    *)
(* hundredths (0.1 is 10, 0.95 is 95); only their order matters.           *)
(***************************************************************************)
EXTENDS Integers, Sequences, FiniteSets, TLC

VARIABLES
    text, max_length, chunks, cpc,          \* one call of chunk_text
    results, best, answer, apc,             \* one run of the aggregation loop
    sessions, now, log, outcome,            \* the session store and the last response
    heap, store, pc, ref, mine, appended    \* two ask handlers stepping on one session

chunkVars == <<text, max_length, chunks, cpc>>
aggVars   == <<results, best, answer, apc>>
storeVars == <<sessions, now, log, outcome>>
concVars  == <<heap, store, pc, ref, mine, appended>>
vars      == <<text, max_length, chunks, cpc, results, best, answer, apc,
               sessions, now, log, outcome, heap, store, pc, ref, mine, appended>>

(***************************************************************************)
(* Bounds of the exploration.                                              *)
(***************************************************************************)
MaxTextLen   == 6      \* characters of an explored text
MaxMaxLength == 4      \* largest explored max_length
MaxWindows   == 3      \* windows of an explored aggregation run
MaxAsks      == 55     \* answered questions on one session
MaxOtherAsks == 0      \* answered questions on every session but the longest

(***************************************************************************)
(* Generic helpers.                                                        *)
(***************************************************************************)
SeqsUpTo(S, n) == UNION {[1..k -> S] : k \in 0..n}

RECURSIVE Flatten(_)
Flatten(ss) == IF ss = <<>> THEN <<>> ELSE Head(ss) \o Flatten(Tail(ss))

(***************************************************************************)
(* chunk_text                                                              *)
(***************************************************************************)
Whitespace == {" ", "\t", "\n"}
Alphabet   == {"a", "b", " ", "\n"}

\* str.split() with no argument: the maximal runs of non-whitespace
\* characters, left to right.  SplitFrom(t, i) is the words starting at or
\* after position i.
WordStarts(t, i) == {s \in i..Len(t) : t[s] \notin Whitespace}

WordEnd(t, s) == CHOOSE e \in s..Len(t) :
                    /\ \A m \in s..e : t[m] \notin Whitespace
                    /\ e = Len(t) \/ t[e + 1] \in Whitespace

RECURSIVE SplitFrom(_, _)
SplitFrom(t, i) ==
    IF WordStarts(t, i) = {} THEN <<>>
    ELSE LET s == CHOOSE x \in WordStarts(t, i) : \A y \in WordStarts(t, i) : x <= y
             e == WordEnd(t, s)
         IN  <<SubSeq(t, s, e)>> \o SplitFrom(t, e + 1)

Split(t) == SplitFrom(t, 1)

\* " ".join(words)
RECURSIVE Join(_)
Join(ws) ==
    IF ws = <<>> THEN <<>>
    ELSE IF Len(ws) = 1 THEN ws[1]
    ELSE ws[1] \o <<" ">> \o Join(Tail(ws))

\* ChunkStep closing a window without seeding the next one with the word.
ChunkStep_DropsWord(st, word, maxlen) ==
    LET len == st.current_length + Len(word) + 1
    IN  IF len > maxlen
        THEN [chunks         |-> Append(st.chunks, Join(st.current_chunk)),
              current_chunk  |-> <<>>,
              current_length |-> 0]
        ELSE [chunks         |-> st.chunks,
              current_chunk  |-> Append(st.current_chunk, word),
              current_length |-> len]

\* ChunkStep counting the words without their separator.
ChunkStep_NoSeparator(st, word, maxlen) ==
    LET len == st.current_length + Len(word)
    IN  IF len > maxlen
        THEN [chunks         |-> Append(st.chunks, Join(st.current_chunk)),
              current_chunk  |-> <<word>>,
              current_length |-> Len(word)]
        ELSE [chunks         |-> st.chunks,
              current_chunk  |-> Append(st.current_chunk, word),
              current_length |-> len]

\* The body of the for loop of chunk_text for one word, on the loop state
\* st = [chunks, current_chunk, current_length].
ChunkStep(st, word, maxlen) ==
    LET len == st.current_length + Len(word) + 1
    IN  IF len > maxlen
        THEN [chunks         |-> Append(st.chunks, Join(st.current_chunk)),
              current_chunk  |-> <<word>>,
              current_length |-> Len(word) + 1]
        ELSE [chunks         |-> st.chunks,
              current_chunk  |-> Append(st.current_chunk, word),
              current_length |-> len]

RECURSIVE ChunkLoop(_, _, _, _)
ChunkLoop(st, words, i, maxlen) ==
    IF i > Len(words) THEN st
    ELSE ChunkLoop(ChunkStep(st, words[i], maxlen), words, i + 1, maxlen)

chunk_text(t, maxlen) ==
    LET st == ChunkLoop([chunks |-> <<>>, current_chunk |-> <<>>, current_length |-> 0],
                        Split(t), 1, maxlen)
    IN  IF st.current_chunk # <<>>
        THEN Append(st.chunks, Join(st.current_chunk))
        ELSE st.chunks

(***************************************************************************)
(* The aggregation loop of ask_question (lines 93-102).                    *)
(***************************************************************************)
RelevanceThreshold == 10      \* 0.1, in hundredths
Sentinel == "No relevant answer found in the document."

Scores  == {0, 5, 10, 50}
Answers == {"x", "y", Sentinel}
Results == [answer : Answers, score : Scores]

InitialBest == [answer |-> "", score |-> 0]

\* Better replacing the running best on an equal score.
Better_TiesReplace(b, r) == IF r.score >= b.score THEN r ELSE b

\* if result["score"] > best_answer["score"]: best_answer = result
Better(b, r) == IF r.score > b.score THEN r ELSE b

\* The running best after the collaborator answered rs[i..] in order.
RECURSIVE ScanFrom(_, _, _)
ScanFrom(b, rs, i) ==
    IF i > Len(rs) THEN b ELSE ScanFrom(Better(b, rs[i]), rs, i + 1)

Scan(rs) == ScanFrom(InitialBest, rs, 1)

\* FinalAnswer without the cutoff.
FinalAnswer_NoCutoff(b) == b.answer

\* Lines 99-102: the relevance cutoff.
FinalAnswer(b) == IF b.score < RelevanceThreshold THEN Sentinel ELSE b.answer

(***************************************************************************)
(* Values of the variables a specification does not use.                   *)
(***************************************************************************)
ChunkIdle == /\ text = <<>> /\ max_length = 1 /\ chunks = <<>> /\ cpc = "idle"
AggIdle   == /\ results = <<>> /\ best = InitialBest /\ answer = "" /\ apc = "idle"
StoreIdle == /\ sessions = <<>> /\ now = 0 /\ log = <<>> /\ outcome = <<>>
ConcIdle  == /\ heap = <<>> /\ store = 0 /\ pc = <<>> /\ ref = <<>>
             /\ mine = <<>> /\ appended = <<>>

(***************************************************************************)
(* SpecChunk: chunk_text applied to every text and budget within bounds.   *)
(***************************************************************************)
InitChunk ==
    /\ text \in SeqsUpTo(Alphabet, MaxTextLen)
    /\ max_length \in 1..MaxMaxLength
    /\ chunks = <<>>
    /\ cpc = "call"
    /\ AggIdle /\ StoreIdle /\ ConcIdle

ChunkCall ==
    /\ cpc = "call"
    /\ chunks' = chunk_text(text, max_length)
    /\ cpc' = "done"
    /\ UNCHANGED <<text, max_length, aggVars, storeVars, concVars>>

NextChunk == ChunkCall

SpecChunk == InitChunk /\ [][NextChunk]_vars

(***************************************************************************)
(* SpecAgg: the aggregation loop on every sequence of collaborator results *)
(* within bounds; results[i] is the collaborator's result for window i.    *)
(***************************************************************************)
InitAgg ==
    /\ results \in SeqsUpTo(Results, MaxWindows)
    /\ best = InitialBest
    /\ answer = ""
    /\ apc = "call"
    /\ ChunkIdle /\ StoreIdle /\ ConcIdle

Aggregate ==
    /\ apc = "call"
    /\ best' = Scan(results)
    /\ answer' = FinalAnswer(Scan(results))
    /\ apc' = "done"
    /\ UNCHANGED <<results, chunkVars, storeVars, concVars>>

NextAgg == Aggregate

SpecAgg == InitAgg /\ [][NextAgg]_vars

(***************************************************************************)
(* The session store: upload_pdf and ask_question, each handler one step:  *)
(* ask_question has no await, and upload_pdf touches sessions only after   *)
(* its one await, so the event loop runs each store access undivided.      *)
(***************************************************************************)
HistoryCap       == 50
DefaultMaxLength == 512

None == "None"                      \* Question.session_id left out
Ids  == {"u1", "u2"}                \* values uuid.uuid4() returns

Rep(c, n) == [i \in 1..n |-> c]

EmptyDoc == <<>>
BlankDoc == <<" ", "\n">>
\* two words that do not fit one window of DefaultMaxLength characters
LongDoc  == Rep("a", 257) \o <<" ">> \o Rep("b", 257)
Docs     == {EmptyDoc, BlankDoc, LongDoc}

Filenames == {<<"a", ".", "p", "d", "f">>, <<"a", ".", "t", "x", "t">>}
Questions == {<<>>, <<" ", "\t">>, <<"q", "?">>}

\* str.endswith
EndsWith(s, suffix) ==
    /\ Len(s) >= Len(suffix)
    /\ SubSeq(s, Len(s) - Len(suffix) + 1, Len(s)) = suffix

\* str.strip() with no argument
RECURSIVE LStrip(_)
LStrip(s) == IF s # <<>> /\ Head(s) \in Whitespace THEN LStrip(Tail(s)) ELSE s

RECURSIVE RStrip(_)
RStrip(s) ==
    IF s # <<>> /\ s[Len(s)] \in Whitespace THEN RStrip(SubSeq(s, 1, Len(s) - 1)) ELSE s

Strip(s) == RStrip(LStrip(s))

\* The windows ask_question scans for each explored document.
WindowsOf == [d \in Docs |-> chunk_text(d, DefaultMaxLength)]

\* The extraction model, external to the repository and a function of its
\* inputs: here one that finds its answer in the windows that start with "a".
qa_pipeline(q, context) ==
    IF context # <<>> /\ Head(context) = "a"
    THEN [answer |-> "x", score |-> 50]
    ELSE [answer |-> "", score |-> 0]

\* FreshIds returning an identifier already in use.
FreshIds_Any(ss) == Ids

\* uuid4 returns an identifier no session has.
FreshIds(ss) == Ids \ DOMAIN ss

\* sessions[session_id] = {"document_text": ..., "conversation_history": []}
PutSession(ss, id, doc) ==
    [x \in DOMAIN ss \cup {id} |->
        IF x = id THEN [document_text |-> doc, conversation_history |-> <<>>]
        ELSE ss[x]]

\* Truncate keeping the oldest records.
Truncate_KeepsOldest(h) ==
    IF Len(h) > HistoryCap THEN SubSeq(h, 1, HistoryCap) ELSE h

\* conversation_history[-50:] when longer than 50, else unchanged
Truncate(h) ==
    IF Len(h) > HistoryCap THEN SubSeq(h, Len(h) - HistoryCap + 1, Len(h)) ELSE h

\* Lines 105-116: append, truncate, store back.
AppendHistory(ss, id, rec) ==
    [ss EXCEPT ![id].conversation_history = Truncate(Append(@, rec))]

\* Precheck looking at the question before the document.
Precheck_QuestionFirst(ss, sid, q) ==
    IF sid = None \/ sid = "" \/ sid \notin DOMAIN ss THEN "SessionNotFound"
    ELSE IF Strip(q) = <<>> THEN "EmptyQuestion"
    ELSE IF ss[sid].document_text = <<>> THEN "EmptyDocument"
    ELSE "ok"

\* The checks of lines 79-88, in order; "ok" when the request passes them.
Precheck(ss, sid, q) ==
    IF sid = None \/ sid = "" \/ sid \notin DOMAIN ss THEN "SessionNotFound"
    ELSE IF ss[sid].document_text = <<>> THEN "EmptyDocument"
    ELSE IF Strip(q) = <<>> THEN "EmptyQuestion"
    ELSE "ok"

Response(op, status, sid, q, calls) ==
    [op |-> op, status |-> status, session_id |-> sid, question |-> q, calls |-> calls]

\* Exploration stops at MaxAsks answers on a session and lets only one
\* session grow beyond MaxOtherAsks.
WithinBounds(sid) ==
    sid \in DOMAIN log =>
        /\ Len(log[sid]) < MaxAsks
        /\ \/ Len(log[sid]) < MaxOtherAsks
           \/ \A t \in DOMAIN log \ {sid} : Len(log[t]) <= MaxOtherAsks

InitStore ==
    /\ sessions = <<>>
    /\ now = 0
    /\ log = <<>>
    /\ outcome = Response("none", "none", None, <<>>, 0)
    /\ ChunkIdle /\ AggIdle /\ ConcIdle

\* upload_pdf with a file name that does not end in ".pdf" (lines 51-52).
UploadRejected(name) ==
    /\ ~EndsWith(name, <<".", "p", "d", "f">>)
    /\ outcome' = Response("upload", "UnsupportedFormat", None, <<>>, 0)
    /\ UNCHANGED <<sessions, now, log>>

\* upload_pdf when reading or parsing the file raises (lines 59-64, 73-74).
UploadFailed(name) ==
    /\ EndsWith(name, <<".", "p", "d", "f">>)
    /\ outcome' = Response("upload", "ExtractionFailure", None, <<>>, 0)
    /\ UNCHANGED <<sessions, now, log>>

\* upload_pdf storing the extracted text doc under a new identifier.
UploadStored(name, doc) ==
    /\ EndsWith(name, <<".", "p", "d", "f">>)
    /\ \E id \in FreshIds(sessions) :
          /\ sessions' = PutSession(sessions, id, doc)
          /\ log' = [x \in DOMAIN log \cup {id} |-> IF x = id THEN <<>> ELSE log[x]]
          /\ outcome' = Response("upload", "ok", id, <<>>, 0)
    /\ UNCHANGED now

\* ask_question rejected by one of the checks of lines 79-88.
AskRejected(sid, q) ==
    /\ Precheck(sessions, sid, q) # "ok"
    /\ outcome' = Response("ask", Precheck(sessions, sid, q), sid, q, 0)
    /\ UNCHANGED <<sessions, now, log>>

\* AskCollaboratorFailed with the record appended before the scan.
AskCollaboratorFailed_Appends(sid, q, k) ==
    /\ Precheck(sessions, sid, q) = "ok"
    /\ k \in 1..Len(WindowsOf[sessions[sid].document_text])
    /\ outcome' = Response("ask", "CollaboratorFailure", sid, q, k)
    /\ sessions' = AppendHistory(sessions, sid,
                       [question |-> q, answer |-> "", timestamp |-> now + 1])
    /\ UNCHANGED <<now, log>>

\* ask_question when the collaborator raises on window k (lines 95, 119-120).
AskCollaboratorFailed(sid, q, k) ==
    /\ Precheck(sessions, sid, q) = "ok"
    /\ k \in 1..Len(WindowsOf[sessions[sid].document_text])
    /\ outcome' = Response("ask", "CollaboratorFailure", sid, q, k)
    /\ UNCHANGED <<sessions, now, log>>

\* ask_question answering: scan every window, cut off, append, truncate, store.
AskAnswered(sid, q) ==
    /\ Precheck(sessions, sid, q) = "ok"
    /\ WithinBounds(sid)
    /\ LET ws  == WindowsOf[sessions[sid].document_text]
           rs  == [i \in 1..Len(ws) |-> qa_pipeline(q, ws[i])]
           rec == [question  |-> q,
                   answer    |-> FinalAnswer(Scan(rs)),
                   timestamp |-> now + 1]
       IN  /\ sessions' = AppendHistory(sessions, sid, rec)
           /\ log' = [log EXCEPT ![sid] = Append(@, rec)]
           /\ outcome' = Response("ask", "ok", sid, q, Len(ws))
    /\ now' = now + 1

Upload ==
    \E name \in Filenames :
        \/ UploadRejected(name)
        \/ UploadFailed(name)
        \/ \E doc \in Docs : UploadStored(name, doc)

Ask ==
    \E sid \in Ids \cup {None}, q \in Questions :
        \/ AskRejected(sid, q)
        \/ \E k \in 1..MaxWindows : AskCollaboratorFailed(sid, q, k)
        \/ AskAnswered(sid, q)

Next ==
    \/ Upload /\ UNCHANGED <<chunkVars, aggVars, concVars>>
    \/ Ask /\ UNCHANGED <<chunkVars, aggVars, concVars>>

Spec == InitStore /\ [][Next]_vars

(***************************************************************************)
(* SpecConc: two ask_question handlers on one session, interleaved at the  *)
(* handler's steps, as they are once handlers run on threads or the        *)
(* collaborator call is awaited; the handler takes no lock.                *)
(* Python lists are objects: heap[r] is the content of   *)
(* list object r, store is the object sessions[sid]["conversation_history"]*)
(* refers to, ref[p] the object handler p's local conversation_history     *)
(* refers to.  append mutates the object; the slice makes a new one.       *)
(* appended lists every record ever appended, in the order of the appends.*)
(***************************************************************************)
Procs == {"p1", "p2"}

\* Lengths of the history the two handlers find.
InitialLengths == {0, HistoryCap - 1, HistoryCap}

ConcQuestion == [p \in Procs |-> IF p = "p1" THEN <<"q", "1">> ELSE <<"q", "2">>]

\* The records of h0 earlier asks, answered one after the other.
Earlier(h0) == [i \in 1..h0 |-> [question |-> <<"q", "?">>, answer |-> "x", timestamp |-> i]]

InitConc ==
    /\ \E h0 \in InitialLengths : heap = <<Earlier(h0)>> /\ appended = Earlier(h0)
    /\ store = 1
    /\ pc = [p \in Procs |-> "idle"]
    /\ ref = [p \in Procs |-> 0]
    /\ mine = [p \in Procs |-> <<>>]
    /\ ChunkIdle /\ AggIdle /\ StoreIdle

\* Lines 78-88: the checks pass; line 83 reads the reference to the history.
ReadHistory(p) ==
    /\ pc[p] = "idle"
    /\ ref' = [ref EXCEPT ![p] = store]
    /\ pc' = [pc EXCEPT ![p] = "scan"]
    /\ UNCHANGED <<heap, store, mine, appended>>

\* Lines 92-102: the windows are scanned and the answer chosen.
ScanWindows(p) ==
    /\ pc[p] = "scan"
    /\ pc' = [pc EXCEPT ![p] = "append"]
    /\ UNCHANGED <<heap, store, ref, mine, appended>>

\* Lines 105-109: conversation_history.append(record), in place.
AppendRecord(p) ==
    /\ pc[p] = "append"
    /\ LET rec == [question  |-> ConcQuestion[p],
                   answer    |-> "x",
                   timestamp |-> Len(appended) + 1]
       IN  /\ heap' = [heap EXCEPT ![ref[p]] = Append(@, rec)]
           /\ mine' = [mine EXCEPT ![p] = rec]
           /\ appended' = Append(appended, rec)
    /\ pc' = [pc EXCEPT ![p] = "slice"]
    /\ UNCHANGED <<store, ref>>

\* Lines 112-113: a history longer than 50 is replaced by a new list of its
\* last 50 records.
SliceHistory(p) ==
    /\ pc[p] = "slice"
    /\ IF Len(heap[ref[p]]) > HistoryCap
       THEN /\ heap' = Append(heap, Truncate(heap[ref[p]]))
            /\ ref' = [ref EXCEPT ![p] = Len(heap) + 1]
       ELSE UNCHANGED <<heap, ref>>
    /\ pc' = [pc EXCEPT ![p] = "write"]
    /\ UNCHANGED <<store, mine, appended>>

\* Line 116: sessions[session_id]["conversation_history"] = conversation_history
WriteHistory(p) ==
    /\ pc[p] = "write"
    /\ store' = ref[p]
    /\ pc' = [pc EXCEPT ![p] = "done"]
    /\ UNCHANGED <<heap, ref, mine, appended>>

NextConc ==
    \E p \in Procs :
        \/ ReadHistory(p) /\ UNCHANGED <<chunkVars, aggVars, storeVars>>
        \/ ScanWindows(p) /\ UNCHANGED <<chunkVars, aggVars, storeVars>>
        \/ AppendRecord(p) /\ UNCHANGED <<chunkVars, aggVars, storeVars>>
        \/ SliceHistory(p) /\ UNCHANGED <<chunkVars, aggVars, storeVars>>
        \/ WriteHistory(p) /\ UNCHANGED <<chunkVars, aggVars, storeVars>>

SpecConc == InitConc /\ [][NextConc]_vars

(***************************************************************************)
(* Claims about chunk_text (SpecChunk).                                    *)
(***************************************************************************)
NumWords(t) == Len(Split(t))

\* The words of all windows, window by window.
WindowWords(cs) == Flatten([i \in 1..Len(cs) |-> Split(cs[i])])

\* C1: every window returned by chunk_text is non-empty and there are at
\* most as many windows as whitespace-separated words in the text.
C1_NonEmptyAtMostWords ==
    cpc = "done" =>
        /\ \A i \in 1..Len(chunks) : chunks[i] # <<>>
        /\ Len(chunks) <= NumWords(text)

\* C4: splitting the windows on whitespace and concatenating gives back
\* exactly the word sequence of the text.
C4_WordsPreserved ==
    cpc = "done" => WindowWords(chunks) = Split(text)

C4_Witness ==
    /\ cpc = "done"
    /\ Len(chunks) >= 2
    /\ NumWords(text) >= 3
    /\ \E i \in 1..Len(chunks) : Len(Split(chunks[i])) >= 2

\* C9: a window is longer than max_length only if it consists of exactly
\* one word, which is itself longer than max_length.
C9_WithinBudget ==
    cpc = "done" =>
        \A i \in 1..Len(chunks) :
            Len(chunks[i]) > max_length =>
                /\ Len(Split(chunks[i])) = 1
                /\ Len(Split(chunks[i])[1]) > max_length

C9_Witness ==
    /\ cpc = "done"
    /\ \E i \in 1..Len(chunks) : Len(chunks[i]) > max_length
    /\ \E i \in 1..Len(chunks) : chunks[i] # <<>> /\ Len(chunks[i]) <= max_length

(***************************************************************************)
(* Claims about the aggregation loop (SpecAgg).                            *)
(***************************************************************************)
MaxScore(rs) == CHOOSE m \in {rs[i].score : i \in 1..Len(rs)} :
                    \A i \in 1..Len(rs) : rs[i].score <= m

\* The first window, in document order, whose score is the maximum.
FirstMax(rs) == CHOOSE i \in 1..Len(rs) :
                    /\ rs[i].score = MaxScore(rs)
                    /\ \A j \in 1..(i - 1) : rs[j].score < MaxScore(rs)

AllBelow(rs) == \A i \in 1..Len(rs) : rs[i].score < RelevanceThreshold

\* C5: when the maximum score is at least the relevance threshold, the
\* answer is the answer text of the first window attaining the maximum.
C5_FirstMaxWins ==
    (apc = "done" /\ ~AllBelow(results)) =>
        answer = results[FirstMax(results)].answer

C5_Witness ==
    /\ apc = "done"
    /\ ~AllBelow(results)
    /\ \E i, j \in 1..Len(results) :
          /\ i < j
          /\ results[i].score = MaxScore(results)
          /\ results[j].score = MaxScore(results)
          /\ results[i].answer # results[j].answer
    /\ FirstMax(results) > 1

\* C6 as stated: the answer is the sentinel if every score is below the
\* threshold, and only then.
C6_SentinelIffBelow ==
    apc = "done" => (answer = Sentinel <=> AllBelow(results))

\* C6 amended: the answer is the sentinel if every score is below the
\* threshold; otherwise it is the best window's candidate text, so it is
\* the sentinel only if the collaborator returned that very text.
C6_SentinelWhenBelow ==
    apc = "done" =>
        /\ AllBelow(results) => answer = Sentinel
        /\ (answer = Sentinel /\ ~AllBelow(results)) =>
               results[FirstMax(results)].answer = Sentinel

C6_Witness ==
    /\ apc = "done"
    /\ Len(results) >= 2
    /\ AllBelow(results)
    /\ best.score > 0
    /\ best.answer # Sentinel
    /\ answer = Sentinel

(***************************************************************************)
(* Claims about the session store (Spec).  log[s] is the sequence of all   *)
(* QA records of the answered asks on session s, in call order.            *)
(***************************************************************************)
Min(a, b) == IF a <= b THEN a ELSE b

\* The last n elements of q, in order (all of q when it is shorter).
LastN(q, n) == [i \in 1..Min(n, Len(q)) |-> q[Len(q) - Min(n, Len(q)) + i]]

History(s) == sessions[s].conversation_history

IsBlank(q) == \A i \in 1..Len(q) : q[i] \in Whitespace

\* C3: the history of a session is exactly the last min(n, 50) records of
\* its n answered asks, in call order; it never holds more than 50.
C3_HistoryIsLastCap ==
    \A s \in DOMAIN sessions :
        /\ Len(History(s)) <= HistoryCap
        /\ Len(History(s)) = Min(Len(log[s]), HistoryCap)
        /\ History(s) = LastN(log[s], HistoryCap)

C3_Witness ==
    \E s \in DOMAIN sessions :
        /\ Len(log[s]) = 55
        /\ Len(History(s)) = HistoryCap
        /\ History(s)[1] = log[s][6]
        /\ History(s)[HistoryCap] = log[s][55]

\* C7: a missing or unknown session id gives SessionNotFound whatever the
\* question; else an empty document gives EmptyDocument whatever the
\* question; else a blank question gives EmptyQuestion; the collaborator is
\* not called in any of the three cases.
C7_ErrorPrecedence ==
    outcome.op = "ask" =>
        LET sid == outcome.session_id
            q   == outcome.question
        IN  /\ (sid = None \/ sid \notin DOMAIN sessions) =>
                   (outcome.status = "SessionNotFound" /\ outcome.calls = 0)
            /\ (sid \in DOMAIN sessions /\ sessions[sid].document_text = <<>>) =>
                   (outcome.status = "EmptyDocument" /\ outcome.calls = 0)
            /\ (/\ sid \in DOMAIN sessions
                /\ sessions[sid].document_text # <<>>
                /\ IsBlank(q)) =>
                   (outcome.status = "EmptyQuestion" /\ outcome.calls = 0)

C7_Witness ==
    /\ outcome.op = "ask"
    /\ outcome.status = "EmptyDocument"
    /\ IsBlank(outcome.question)
    /\ \E s \in DOMAIN sessions : s # outcome.session_id /\ History(s) # <<>>

\* C8: an ask that fails leaves the whole store unchanged, and a history
\* changes only in a step of an ask that returns an answer.
C8_FailedAskChangesNothing ==
    [][/\ (outcome'.op = "ask" /\ outcome'.status # "ok") => sessions' = sessions
       /\ (\E s \in DOMAIN sessions :
              sessions'[s].conversation_history # sessions[s].conversation_history)
          => (outcome'.op = "ask" /\ outcome'.status = "ok")]_vars

C8_Witness ==
    /\ outcome.op = "ask"
    /\ outcome.status = "CollaboratorFailure"
    /\ outcome.calls = 2
    /\ Len(History(outcome.session_id)) = HistoryCap

\* C10: a session is never removed and its document never changes; an
\* answered ask on s changes nothing but the history of s; an upload that
\* succeeds adds exactly one session, with empty history, under an
\* identifier not in the store, and changes no existing session.
C10_Frame ==
    [][/\ \A s \in DOMAIN sessions :
             /\ s \in DOMAIN sessions'
             /\ sessions'[s].document_text = sessions[s].document_text
       /\ (outcome'.op = "ask" /\ outcome'.status = "ok") =>
             /\ DOMAIN sessions' = DOMAIN sessions
             /\ \A t \in DOMAIN sessions \ {outcome'.session_id} :
                    sessions'[t] = sessions[t]
       /\ (outcome'.op = "upload" /\ outcome'.status = "ok") =>
             /\ outcome'.session_id \notin DOMAIN sessions
             /\ DOMAIN sessions' = DOMAIN sessions \cup {outcome'.session_id}
             /\ sessions'[outcome'.session_id].conversation_history = <<>>
             /\ \A t \in DOMAIN sessions : sessions'[t] = sessions[t]
       /\ DOMAIN sessions' # DOMAIN sessions =>
             (outcome'.op = "upload" /\ outcome'.status = "ok")]_vars

C10_Witness ==
    /\ outcome.op = "upload"
    /\ outcome.status = "ok"
    /\ \E s \in DOMAIN sessions :
          /\ s # outcome.session_id
          /\ Len(log[s]) > HistoryCap

(***************************************************************************)
(* Claim about interleaved asks (SpecConc).                                *)
(***************************************************************************)
Stored == heap[store]

\* q holds its records in the order in which they were appended.
InAppendOrder(q) == \A i, j \in 1..Len(q) : i < j => q[i].timestamp < q[j].timestamp

====
